---- MODULE Spec2Model ----
(***************************************************************************)
(* Model of the precision upload-rate governor                             *)
(* (backend/precision_limit_engine.py) and of the auto-remove rule engine  *)
(* (backend/auto_remove_engine.py).                                        *)
(*                                                                         *)
(* Numbers.  Python floats are modelled in fixed point: dimensionless      *)
(* quantities (PID error, integral, gains, Kalman variances, ratios) are   *)
(* integers in thousandths (suffix M), byte counts, speeds and seconds are *)
(* whole integers.  Every division floors.  TLC integers are 32 bit, so    *)
(* the torrents' target speeds and upload counters are chosen small enough *)
(* that no product leaves that range; MIN_LIMIT, MAX_LIMIT and the         *)
(* rounding steps keep their real values.                                  *)
(***************************************************************************)
EXTENDS Integers, Sequences, FiniteSets, TLC

VARIABLES
    now,      \* time.time()
    states,   \* PrecisionLimitEngine._states: hash -> TorrentLimitState
    ticks,    \* number of _process_torrent calls so far
    obs,      \* what the last _process_torrent call read, chose and did
    run,      \* per hash: the current run of ticks that chose the same limit
    ar,       \* the AutoRemoveEngine's fields
    arObs,    \* what the last rule evaluation of the auto-remove pass did
    eng,      \* the governor's running flag, its worker thread, the persisted
              \* state table of the store and a reader of the inspection API
    client,   \* per hash: the upload limit in force at the qBittorrent client
    nt        \* the Notifier: its running flag, queue and drainer threads

vars == <<now, states, ticks, obs, run, ar, arObs, eng, client, nt>>

govVars == <<states, ticks, obs, run, eng, client>>

arVars == <<ar, arObs, nt>>

(***************************************************************************)
(* Bounds of the model                                                     *)
(***************************************************************************)
\* wall-clock second at which the model starts
Now0 == 1000
\* total number of _process_torrent calls explored
MaxTicks == 3

(***************************************************************************)
(* LimitConfig                                                             *)
(***************************************************************************)
FINISH_TIME == 30
STEADY_TIME == 120
MIN_LIMIT == 4096
MAX_LIMIT == 500 * 1024 * 1024
LOG_INTERVAL == 20

\* PID_PARAMS, in thousandths
PID_PARAMS(phase) ==
    CASE phase = "warmup" -> [kp |-> 300, ki |-> 50,  kd |-> 20,  headroom |-> 1030]
      [] phase = "steady" -> [kp |-> 600, ki |-> 150, kd |-> 80,  headroom |-> 1005]
      [] phase = "finish" -> [kp |-> 800, ki |-> 200, kd |-> 120, headroom |-> 1001]
      [] OTHER            -> [kp |-> 500, ki |-> 100, kd |-> 50,  headroom |-> 1020]

(***************************************************************************)
(* Utility functions                                                       *)
(***************************************************************************)
Max(a, b) == IF a >= b THEN a ELSE b

Min(a, b) == IF a <= b THEN a ELSE b

clamp(value, min_val, max_val) == Max(min_val, Min(max_val, value))

\* floor(a * b / c) for c > 0, computed without leaving 32 bits
MulDiv(a, b, c) == (a \div c) * b + ((a % c) * b) \div c

\* floor(1000 * a / b) for b > 0: the quotient a / b in thousandths
DivM(a, b) ==
    LET q  == a \div b
        r0 == a % b
        d1 == (10 * r0) \div b
        r1 == (10 * r0) % b
        d2 == (10 * r1) \div b
        r2 == (10 * r1) % b
        d3 == (10 * r2) \div b
    IN  1000 * q + 100 * d1 + 10 * d2 + d3

\* safe_div(a, b, default), result in thousandths
safe_div(a, b, default) == IF b = 0 THEN default ELSE DivM(a, b)

get_phase(time_left, cycle_synced) ==
    IF ~cycle_synced THEN "warmup"
    ELSE IF time_left <= FINISH_TIME THEN "finish"
    ELSE IF time_left <= STEADY_TIME THEN "steady"
    ELSE "catch"

(***************************************************************************)
(* PIDController                                                           *)
(***************************************************************************)
PIDInit == [integral |-> 0, last_error |-> 0, last_time |-> 0, phase |-> "warmup"]

PIDSetPhase(pid, phase) ==
    IF phase # pid.phase
    THEN [pid EXCEPT !.integral = pid.integral \div 2, !.phase = phase]
    ELSE pid

\* PIDController.update: <<new controller, output in thousandths>>
PIDUpdate(pid, target, actual, t) ==
    LET params     == PID_PARAMS(pid.phase)
        error      == safe_div(target - actual, Max(target, 1), 0)
        dt         == IF pid.last_time > 0 THEN t - pid.last_time ELSE 1
        integral   == clamp(pid.integral + error * dt, -500, 500)
        derivative == IF dt > 0 THEN (error - pid.last_error) \div dt ELSE 0
        output     == 1000 + (params.kp * error) \div 1000
                           + (params.ki * integral) \div 1000
                           + (params.kd * derivative) \div 1000
    IN  <<[pid EXCEPT !.integral = integral, !.last_error = error, !.last_time = t],
          clamp(output, 300, 3000)>>

PIDReset(pid) == [pid EXCEPT !.integral = 0, !.last_error = 0, !.last_time = 0]

(***************************************************************************)
(* KalmanFilter                                                            *)
(***************************************************************************)
Q_SPEED_M == 100
Q_ACCEL_M == 50
R_M == 500

KalmanInit ==
    [speed |-> 0, acceleration |-> 0, p_speed |-> 1000, p_accel |-> 1000, last_time |-> 0]

KalmanUpdate(k, measured_speed, t) ==
    IF k.last_time <= 0
    THEN [k EXCEPT !.speed = measured_speed, !.last_time = t]
    ELSE LET dt == t - k.last_time IN
         IF dt <= 0 THEN k
         ELSE LET predicted  == k.speed + k.acceleration * dt
                  p_speed1   == k.p_speed + Q_SPEED_M + k.p_accel * dt * dt
                  innovation == measured_speed - predicted
                  gain       == DivM(p_speed1, p_speed1 + R_M)
              IN  [speed        |-> predicted + MulDiv(innovation, gain, 1000),
                   acceleration |-> k.acceleration + innovation \div (10 * dt),
                   p_speed      |-> MulDiv(p_speed1, 1000 - gain, 1000),
                   p_accel      |-> k.p_accel + Q_ACCEL_M,
                   last_time    |-> t]

KalmanPredictUpload(k, time_left) ==
    k.speed * time_left + (k.acceleration * time_left * time_left) \div 2

(***************************************************************************)
(* The torrents, their site rules and what the collaborators may answer    *)
(***************************************************************************)
Hashes == {"h1", "h2"}

\* target_speed_kib of the enabled speed rule that _find_rule returns
RuleTargetKib(h) == IF h = "h1" THEN 100 ELSE 1

\* int(target_kib * 1024 * safety), safety_margin = 0.98
RuleTargetSpeed(h) == (RuleTargetKib(h) * 1024 * 98) \div 100

InstanceOf(h) == IF h = "h1" THEN 1 ELSE 2

TrackerOf(h) == IF h = "h1" THEN "https://tracker.alpha/announce" ELSE "https://tracker.beta/announce"

TidOf(h) == IF h = "h1" THEN 11 ELSE 22

SiteIdOf(h) == IF h = "h1" THEN 1 ELSE 2

\* what get_torrents reports for the torrent: its uploaded counter and its
\* upspeed (0, 40 and 300 seconds' worth of the target speed uploaded)
Torrents(h) ==
    { [uploaded |-> 0,                        upspeed |-> 0],
      [uploaded |-> 300 * RuleTargetSpeed(h), upspeed |-> 2 * RuleTargetSpeed(h)] }
    \cup IF h = "h1"
         THEN { [uploaded |-> 40 * RuleTargetSpeed(h), upspeed |-> RuleTargetSpeed(h)] }
         ELSE {}

\* what the site scraper does: no helper for the tracker, an exception, or
\* an answer (search_tid_by_hash finds the tid or not, get_reannounce_time
\* returns value)
SiteNoHelper == [kind |-> "no_helper", found |-> FALSE, value |-> 0]

SiteRaises == [kind |-> "raise", found |-> FALSE, value |-> 0]

SiteAnswer(found, v) == [kind |-> "answer", found |-> found, value |-> v]

SiteInputs ==
    {SiteNoHelper, SiteRaises, SiteAnswer(FALSE, 140), SiteAnswer(TRUE, 0), SiteAnswer(TRUE, 140)}

\* what client.torrents_properties does: an exception, or props['reannounce']
QbRaises == [kind |-> "raise", value |-> 0]

QbValue(v) == [kind |-> "value", value |-> v]

QbInputs == {QbRaises} \cup {QbValue(v) : v \in {0, 20, 100, 140, 86400}}

\* the oracle's collaborators in the governor's specification: the client's
\* answers in the three phases, no answer at all and, for h1 (the tracker of
\* h2 has no site helper), one answer of the site
GovOracle(h) ==
    { <<SiteNoHelper, QbRaises>> }
    \cup { <<SiteNoHelper, QbValue(v)>> : v \in {20, 100, 140} }
    \cup IF h = "h1" THEN { <<SiteAnswer(TRUE, 140), QbRaises>> } ELSE {}

\* the oracle's collaborators in the oracle's specification: every pair
AllOracle == SiteInputs \X QbInputs

\* seconds between two readings of time.time(): the loop's sleep, and a slow tick
Gaps == {5, 30}

(***************************************************************************)
(* TorrentLimitState                                                       *)
(***************************************************************************)
NoTid == 0

\* TorrentLimitState(hash, name, tracker, instance_id, cycle_start,
\* cycle_uploaded_start, target_speed) with the dataclass defaults
NewState(h, tracker, instance_id, t, uploaded, target_speed) ==
    [hash |-> h, name |-> h, tracker |-> tracker, instance_id |-> instance_id,
     cycle_start |-> t, cycle_uploaded_start |-> uploaded,
     cycle_index |-> 0, cycle_synced |-> FALSE,
     reannounce_time |-> 0, cached_time_left |-> 1800,
     reannounce_source |-> "unknown",
     target_speed |-> target_speed, last_limit |-> -1,
     last_limit_reason |-> <<"", 0, "">>,
     site_id |-> NoTid, tid |-> NoTid,
     pid |-> PIDInit, kalman |-> KalmanInit, last_log_time |-> 0]

StateGetPhase(st, t) ==
    IF ~st.cycle_synced THEN "warmup"
    ELSE get_phase(IF st.reannounce_time > 0
                   THEN Max(0, st.reannounce_time - t)
                   ELSE st.cached_time_left,
                   st.cycle_synced)

get_cycle_uploaded(st, current_uploaded) ==
    Max(0, current_uploaded - st.cycle_uploaded_start)

\* a variant that forgets to count the cycle
new_cycle_no_index(st, t, current_uploaded, time_left) ==
    [st EXCEPT !.cycle_start = t,
               !.cycle_uploaded_start = current_uploaded,
               !.pid = PIDReset(st.pid),
               !.reannounce_time = t + time_left,
               !.cached_time_left = time_left]

new_cycle(st, t, current_uploaded, time_left) ==
    [st EXCEPT !.cycle_start = t,
               !.cycle_uploaded_start = current_uploaded,
               !.cycle_index = st.cycle_index + 1,
               !.pid = PIDReset(st.pid),
               !.reannounce_time = t + time_left,
               !.cached_time_left = time_left]

(***************************************************************************)
(* PrecisionLimitEngine._get_reannounce_time                               *)
(***************************************************************************)
\* a variant in which an answer of the site also moves reannounce_time
SiteLookupWritesTime(st, site) ==
    IF site.kind # "answer" THEN [st |-> st, hit |-> FALSE]
    ELSE LET st1 == IF st.tid = NoTid /\ site.found
                    THEN [st EXCEPT !.tid = TidOf(st.hash), !.site_id = SiteIdOf(st.hash)]
                    ELSE st
             hit == st1.tid # NoTid /\ site.value > 0
         IN  [st |-> IF hit THEN [st1 EXCEPT !.reannounce_time = st1.reannounce_time + site.value]
                     ELSE st1,
              hit |-> hit]

\* the site path: the tid cache after it, and whether it returns
SiteLookup(st, site) ==
    IF site.kind # "answer" THEN [st |-> st, hit |-> FALSE]
    ELSE LET st1 == IF st.tid = NoTid /\ site.found
                    THEN [st EXCEPT !.tid = TidOf(st.hash), !.site_id = SiteIdOf(st.hash)]
                    ELSE st
         IN  [st |-> st1, hit |-> st1.tid # NoTid /\ site.value > 0]

QbAccepts(qb) == qb.kind = "value" /\ 0 < qb.value /\ qb.value < 86400

\* a variant that asks the client before the site
GetReannounceTimeQbFirst(st, site, qb, t) ==
    LET s == SiteLookup(st, site) IN
    IF QbAccepts(qb)
    THEN [st |-> [s.st EXCEPT !.reannounce_time = t + qb.value],
          time_left |-> qb.value, source |-> "qb_api"]
    ELSE IF s.hit
    THEN [st |-> s.st, time_left |-> site.value, source |-> "site"]
    ELSE IF s.st.reannounce_time > 0
    THEN [st |-> s.st, time_left |-> Max(0, s.st.reannounce_time - t), source |-> "estimated"]
    ELSE [st |-> s.st, time_left |-> st.cached_time_left, source |-> "cached"]

\* [st: the state after the call, time_left, source]
GetReannounceTime(st, site, qb, t) ==
    LET s == SiteLookup(st, site) IN
    IF s.hit
    THEN [st |-> s.st, time_left |-> site.value, source |-> "site"]
    ELSE IF QbAccepts(qb)
    THEN [st |-> [s.st EXCEPT !.reannounce_time = t + qb.value],
          time_left |-> qb.value, source |-> "qb_api"]
    ELSE IF s.st.reannounce_time > 0
    THEN [st |-> s.st, time_left |-> Max(0, s.st.reannounce_time - t), source |-> "estimated"]
    ELSE [st |-> s.st, time_left |-> st.cached_time_left, source |-> "cached"]

(***************************************************************************)
(* PrecisionLimitEngine._calculate_limit                                   *)
(***************************************************************************)
\* the final clamp and rounding of a computed limit
ClampAndRound(limit, phase) ==
    IF limit > 0
    THEN LET c    == Max(MIN_LIMIT, Min(MAX_LIMIT, limit))
             step == IF phase = "finish" THEN 1024 ELSE 4096
         IN  ((c + step \div 2) \div step) * step
    ELSE limit

\* the finish phase's correction factor, in thousandths
Correction(predicted_ratio) ==
    IF predicted_ratio > 1002 THEN Max(800, 1000 - (predicted_ratio - 1000) * 3)
    ELSE IF predicted_ratio < 998 THEN Min(1200, 1000 + (1000 - predicted_ratio) * 3)
    ELSE 1000

\* [limit, reason, pid, phase]: reason is <<tag, number, source tag>>
CalculateLimit(st, current_uploaded, t, time_left) ==
    LET phase          == StateGetPhase(st, t)
        pid1           == PIDSetPhase(st.pid, phase)
        elapsed        == t - st.cycle_start
        total_time     == elapsed + time_left
        target_total   == st.target_speed * total_time
        cycle_uploaded == get_cycle_uploaded(st, current_uploaded)
        need_upload    == Max(0, target_total - cycle_uploaded)
        progress       == safe_div(cycle_uploaded, target_total, 0)
    IN
    IF time_left <= 0
    THEN [limit |-> -1, reason |-> <<"announcing", 0, "">>, pid |-> pid1, phase |-> phase]
    ELSE
    LET upd        == PIDUpdate(pid1, target_total, cycle_uploaded, t)
        pid2       == upd[1]
        pid_output == upd[2]
        headroom   == PID_PARAMS(phase).headroom
        src        == st.reannounce_source
        reqK       == (need_upload \div time_left) \div 1024
        ratio      == safe_div(cycle_uploaded + KalmanPredictUpload(st.kalman, time_left),
                               target_total, 0)
        raw ==
            CASE phase = "finish" ->
                   [limit |-> MulDiv(MulDiv(need_upload, pid_output, 1000),
                                     Correction(ratio), 1000) \div time_left,
                    reason |-> <<"F", reqK, src>>]
              [] phase = "steady" ->
                   [limit |-> MulDiv(MulDiv(need_upload, headroom, 1000),
                                     pid_output, 1000) \div time_left,
                    reason |-> <<"S", reqK, src>>]
              [] phase = "catch" ->
                   IF need_upload > st.target_speed * 5 * time_left
                   THEN [limit |-> -1, reason |-> <<"C:behind", 0, src>>]
                   ELSE [limit |-> MulDiv(MulDiv(need_upload, headroom, 1000),
                                          pid_output, 1000) \div time_left,
                         reason |-> <<"C", reqK, src>>]
              [] OTHER ->
                   IF progress >= 1000
                   THEN [limit |-> MIN_LIMIT,
                         reason |-> <<"W:over", (progress - 1000) \div 10, src>>]
                   ELSE IF progress >= 800
                   THEN [limit |-> MulDiv(MulDiv(need_upload, 1010, 1000),
                                          pid_output, 1000) \div time_left,
                         reason |-> <<"W:fine", 0, src>>]
                   ELSE IF progress >= 500
                   THEN [limit |-> MulDiv(need_upload, 1050, 1000) \div time_left,
                         reason |-> <<"W:warm", 0, src>>]
                   ELSE [limit |-> -1, reason |-> <<"W:preheat", 0, src>>]
    IN  [limit |-> ClampAndRound(raw.limit, phase), reason |-> raw.reason,
         pid |-> pid2, phase |-> phase]

(***************************************************************************)
(* PrecisionLimitEngine._process_torrent                                   *)
(***************************************************************************)
\* a variant that pushes the limit on every tick
NeedsRpcAlways(new_limit, last_limit) == TRUE

\* line 518: whether the chosen limit is pushed to the client
NeedsRpc(new_limit, last_limit) == new_limit # last_limit

\* a variant that records the limit before the call, so also when it raises
ApplyLimitBeforeCall(st, new_limit, reason, rpc_ok) ==
    IF NeedsRpc(new_limit, st.last_limit)
    THEN [st EXCEPT !.last_limit = new_limit, !.last_limit_reason = reason]
    ELSE st

\* lines 519-524: set_upload_limit succeeded (rpc_ok) or raised
ApplyLimit(st, new_limit, reason, rpc_ok) ==
    IF NeedsRpc(new_limit, st.last_limit) /\ rpc_ok
    THEN [st EXCEPT !.last_limit = new_limit, !.last_limit_reason = reason]
    ELSE st

\* lines 503-506: the cycle jump test
CycleJump(st, time_left) ==
    st.cycle_synced /\ time_left > st.cached_time_left + 30

\* lines 466-490: the state the call works on
EntryState(h, uploaded, t) ==
    LET st == IF h \in DOMAIN states
              THEN states[h]
              ELSE NewState(h, TrackerOf(h), InstanceOf(h), t, uploaded, RuleTargetSpeed(h))
    IN  [st EXCEPT !.target_speed = RuleTargetSpeed(h),
                   !.tracker = TrackerOf(h),
                   !.instance_id = InstanceOf(h)]

\* the whole call: [pre, post, oracle, time_left, source, jump, limit, reason,
\* phase, rpc]; oracle is the state before and after _get_reannounce_time
ProcessTorrentResult(h, uploaded, upspeed, site, qb, rpc_ok, t) ==
    LET st0  == EntryState(h, uploaded, t)
        st1  == [st0 EXCEPT !.kalman = KalmanUpdate(st0.kalman, upspeed, t)]
        orc  == GetReannounceTime(st1, site, qb, t)
        st2  == [orc.st EXCEPT !.reannounce_source = orc.source]
        jump == CycleJump(st2, orc.time_left)
        st3  == IF jump THEN new_cycle(st2, t, uploaded, orc.time_left) ELSE st2
        st4  == [st3 EXCEPT !.cached_time_left = orc.time_left]
        st5  == IF ~st4.cycle_synced /\ orc.time_left > 0
                THEN [st4 EXCEPT !.cycle_synced = TRUE, !.cached_time_left = orc.time_left]
                ELSE st4
        calc == CalculateLimit(st5, uploaded, t, orc.time_left)
        st6  == [st5 EXCEPT !.pid = calc.pid]
        rpc  == IF ~NeedsRpc(calc.limit, st6.last_limit) THEN "none"
                ELSE IF rpc_ok THEN "ok" ELSE "failed"
        st7  == ApplyLimit(st6, calc.limit, calc.reason, rpc_ok)
        st8  == IF t - st7.last_log_time > LOG_INTERVAL
                THEN [st7 EXCEPT !.last_log_time = t]
                ELSE st7
    IN  [pre |-> st0, post |-> st8, oracle |-> [pre |-> st1, post |-> orc.st],
         time_left |-> orc.time_left, source |-> orc.source,
         jump |-> jump, limit |-> calc.limit, reason |-> calc.reason,
         phase |-> calc.phase, rpc |-> rpc]

NoRun == [len |-> 0, val |-> -1, start |-> -1, rpcs |-> 0, oks |-> 0, fails |-> 0]

\* the run of consecutive ticks of one torrent that chose the same limit
NextRun(r, res) ==
    LET same == r.len > 0 /\ r.val = res.limit
        base == IF same THEN r
                ELSE [len |-> 0, val |-> res.limit, start |-> res.pre.last_limit,
                      rpcs |-> 0, oks |-> 0, fails |-> 0]
    IN  [base EXCEPT !.len = base.len + 1,
                     !.rpcs = base.rpcs + (IF res.rpc # "none" THEN 1 ELSE 0),
                     !.oks = base.oks + (IF res.rpc = "ok" THEN 1 ELSE 0),
                     !.fails = base.fails + (IF res.rpc = "failed" THEN 1 ELSE 0)]

ProcessTorrentStep(h, tor, site, qb, rpc_ok) ==
    /\ ticks < MaxTicks
    /\ obs.kind = "tick" => obs.now < now
    /\ \E res \in {ProcessTorrentResult(h, tor.uploaded, tor.upspeed, site, qb, rpc_ok, now)} :
       /\ states' = [x \in DOMAIN states \cup {h} |-> IF x = h THEN res.post ELSE states[x]]
       /\ obs' = [kind |-> "tick", hash |-> h, now |-> now, uploaded |-> tor.uploaded,
                  site |-> site, qb |-> qb, pre |-> res.pre, post |-> res.post,
                  oracle |-> res.oracle,
                  time_left |-> res.time_left, source |-> res.source, jump |-> res.jump,
                  limit |-> res.limit, reason |-> res.reason, phase |-> res.phase,
                  rpc |-> res.rpc]
       /\ run' = [run EXCEPT ![h] = NextRun(run[h], res)]
       /\ client' = IF res.rpc = "ok" THEN [client EXCEPT ![h] = res.limit] ELSE client
    /\ ticks' = ticks + 1

\* one _process_torrent call of a running governor whose lifecycle is left aside
ProcessTorrent(h, tor, site, qb, rpc_ok) ==
    /\ ProcessTorrentStep(h, tor, site, qb, rpc_ok)
    /\ UNCHANGED <<now, arVars, eng>>

\* _run_loop's time.sleep(5) and the time the calls of a tick take, between
\* two calls of _process_torrent
Sleep(g) ==
    /\ ticks < MaxTicks
    /\ obs.kind = "tick" /\ obs.now = now
    /\ now' = now + g
    /\ UNCHANGED <<govVars, arVars>>


(***************************************************************************)
(* PrecisionLimitEngine: persistence, start, stop, the worker loop and the *)
(* inspection API                                                          *)
(***************************************************************************)
\* number of iterations of _run_loop explored
MaxIters == 3
\* number of start() calls explored
MaxStarts == 2
\* number of times the process is killed and started again
MaxBoots == 1

SAVE_INTERVAL == 180
MAX_AGE == 86400

EmptyTable == [x \in {} |-> 0]

\* the dict _save_states_to_db hands to save_torrent_limit_state
SaveRow(st) ==
    [hash |-> st.hash, name |-> st.name, tracker |-> st.tracker,
     instance_id |-> st.instance_id, site_id |-> st.site_id, tid |-> st.tid,
     cycle_index |-> st.cycle_index, cycle_start |-> st.cycle_start,
     cycle_uploaded_start |-> st.cycle_uploaded_start,
     cycle_synced |-> st.cycle_synced, target_speed |-> st.target_speed,
     last_limit |-> st.last_limit, reannounce_time |-> st.reannounce_time,
     cached_time_left |-> st.cached_time_left]

\* the store's persisted-state table: one row per hash, stamped with the time
\* of the write
StorePut(store, row, t) ==
    [x \in DOMAIN store \cup {row.hash} |->
        IF x = row.hash THEN [row |-> row, updated_at |-> t] ELSE store[x]]

RECURSIVE StorePutAll(_, _, _)
StorePutAll(store, rows, t) ==
    IF rows = {} THEN store
    ELSE LET r == CHOOSE x \in rows : TRUE
         IN  StorePutAll(StorePut(store, r, t), rows \ {r}, t)

\* _save_states_to_db: every state is written and the save time noted, or the
\* store raises and the failure is only logged; saved remembers the in-memory
\* state each row was written from
SaveStates(e, table, t, save_ok) ==
    IF save_ok
    THEN [e EXCEPT !.store = StorePutAll(e.store, {SaveRow(table[h]) : h \in DOMAIN table}, t),
                   !.saved = [h \in DOMAIN e.saved \cup DOMAIN table |->
                                 IF h \in DOMAIN table THEN table[h] ELSE e.saved[h]],
                   !.last_save_time = t]
    ELSE e

\* a variant that loses the tid found by the site search
RestoreStateNoTid(data) ==
    [hash |-> data.hash, name |-> data.name, tracker |-> data.tracker,
     instance_id |-> data.instance_id,
     cycle_start |-> data.cycle_start, cycle_uploaded_start |-> data.cycle_uploaded_start,
     cycle_index |-> data.cycle_index, cycle_synced |-> data.cycle_synced,
     reannounce_time |-> data.reannounce_time, cached_time_left |-> data.cached_time_left,
     reannounce_source |-> "unknown",
     target_speed |-> data.target_speed, last_limit |-> data.last_limit,
     last_limit_reason |-> <<"", 0, "">>,
     site_id |-> data.site_id, tid |-> NoTid,
     pid |-> PIDInit, kalman |-> KalmanInit, last_log_time |-> 0]

\* _restore_states_from_db, lines 272-287: the state built from one row
RestoreState(data) ==
    [hash |-> data.hash, name |-> data.name, tracker |-> data.tracker,
     instance_id |-> data.instance_id,
     cycle_start |-> data.cycle_start, cycle_uploaded_start |-> data.cycle_uploaded_start,
     cycle_index |-> data.cycle_index, cycle_synced |-> data.cycle_synced,
     reannounce_time |-> data.reannounce_time, cached_time_left |-> data.cached_time_left,
     reannounce_source |-> "unknown",
     target_speed |-> data.target_speed, last_limit |-> data.last_limit,
     last_limit_reason |-> <<"", 0, "">>,
     site_id |-> data.site_id, tid |-> data.tid,
     pid |-> PIDInit, kalman |-> KalmanInit, last_log_time |-> 0]

\* _restore_states_from_db: rows older than 86400 s are skipped; a store that
\* raises leaves the table empty
RestoreStates(store, t, restore_ok) ==
    IF restore_ok
    THEN LET fresh == { h \in DOMAIN store : ~(t - store[h].updated_at > MAX_AGE) }
         IN  [h \in fresh |-> RestoreState(store[h].row)]
    ELSE EmptyTable

ReaderIdle == [pc |-> "idle", view |-> EmptyTable, raised |-> FALSE, torn |-> FALSE]

\* the engine right after __init__, before the restore; pc is the position
\* of the worker thread being followed, other that of a second worker thread
EngNew(store, saved) ==
    [running |-> FALSE, pc |-> "none", other |-> "none", store |-> store, saved |-> saved,
     last_save_time |-> 0, snap |-> [taken |-> FALSE, table |-> EmptyTable],
     iters |-> 0, excs |-> 0, starts |-> 0, restored |-> FALSE, reader |-> ReaderIdle,
     op |-> "init", boots |-> 0]

EngInit == eng = EngNew(EmptyTable, EmptyTable)

\* start(), called while no earlier worker thread is alive
GovStart ==
    /\ ~eng.restored
    /\ ~eng.running
    /\ eng.pc \in {"none", "exit"}
    /\ eng.starts < MaxStarts
    /\ eng' = [eng EXCEPT !.running = TRUE, !.pc = "test", !.starts = eng.starts + 1,
                          !.op = "start"]
    /\ UNCHANGED <<now, states, ticks, obs, run, client, arVars>>

\* start(), lines 330-335, called after a stop() whose join(timeout=5) gave
\* up because the worker is inside a tick that lasts longer: the flag is set
\* again and a second thread is created beside the first
GovStartBesideWorker ==
    /\ ~eng.restored
    /\ ~eng.running
    /\ eng.pc = "body"
    /\ eng.other \in {"none", "exit"}
    /\ eng.starts < MaxStarts
    /\ eng' = [eng EXCEPT !.running = TRUE, !.other = eng.pc, !.pc = "test",
                          !.starts = eng.starts + 1, !.op = "start"]
    /\ UNCHANGED <<now, states, ticks, obs, run, client, arVars>>

\* the scheduler turns to the other worker thread
GovSwitchWorker ==
    /\ ~eng.restored
    /\ eng.other # "none"
    /\ eng' = [eng EXCEPT !.pc = eng.other, !.other = eng.pc, !.op = "switch"]
    /\ UNCHANGED <<now, states, ticks, obs, run, client, arVars>>

\* stop(): the flag is cleared and the table saved at once, before the join;
\* snap is the in-memory table the shutdown save read
GovStop(save_ok) ==
    /\ ~eng.restored
    /\ eng.running
    /\ eng' = [SaveStates(eng, states, now, save_ok)
                  EXCEPT !.running = FALSE, !.op = "stop",
                         !.snap = [taken |-> TRUE, table |-> states]]
    /\ UNCHANGED <<now, states, ticks, obs, run, client, arVars>>

\* _run_loop, line 350: the loop test
GovLoopTest ==
    /\ ~eng.restored
    /\ eng.pc = "test"
    /\ eng.running => eng.iters < MaxIters
    /\ eng' = IF eng.running
              THEN [eng EXCEPT !.pc = "body", !.iters = eng.iters + 1, !.op = "loop"]
              ELSE [eng EXCEPT !.pc = "exit", !.op = "loop"]
    /\ UNCHANGED <<now, states, ticks, obs, run, client, arVars>>

\* _run_loop, lines 351-356: _process_all handles a torrent, then the table
\* is saved when the last save is more than 180 s old
GovBody(h, tor, site, qb, rpc_ok, save_ok) ==
    /\ ~eng.restored
    /\ eng.pc = "body"
    /\ ProcessTorrentStep(h, tor, site, qb, rpc_ok)
    /\ eng' = [(IF now - eng.last_save_time > SAVE_INTERVAL
                THEN SaveStates(eng, states', now, save_ok)
                ELSE eng) EXCEPT !.pc = "sleep", !.op = "loop"]
    /\ UNCHANGED <<now, arVars>>

\* a variant in which an exception of the loop body ends the worker thread
GovBodyRaisesUncaught ==
    /\ ~eng.restored
    /\ eng.pc = "body"
    /\ eng' = [eng EXCEPT !.pc = "crashed", !.excs = eng.excs + 1, !.op = "raise"]
    /\ UNCHANGED <<now, states, ticks, obs, run, client, arVars>>

\* _run_loop, lines 357-358: _process_all raises (get_qb_instances, a client
\* call or the rate computation); the exception is logged
GovBodyRaises ==
    /\ ~eng.restored
    /\ eng.pc = "body"
    /\ eng' = [eng EXCEPT !.pc = "sleep", !.excs = eng.excs + 1, !.op = "raise"]
    /\ UNCHANGED <<now, states, ticks, obs, run, client, arVars>>

\* _run_loop, line 359: time.sleep(5) and the time the iteration took
GovWake(g) ==
    /\ ~eng.restored
    /\ eng.pc = "sleep"
    /\ now' = now + g
    /\ eng' = [eng EXCEPT !.pc = "test", !.op = "loop"]
    /\ UNCHANGED <<states, ticks, obs, run, client, arVars>>

\* the process ends and, g seconds later, a new engine is constructed over
\* the same store: __init__ with _restore_states_from_db
Restart(g, restore_ok) ==
    /\ ~eng.restored
    /\ eng.pc \in {"none", "exit"}
    /\ eng.reader.pc # "iter"
    /\ DOMAIN eng.store # {}
    /\ now' = now + g
    /\ states' = RestoreStates(eng.store, now', restore_ok)
    /\ eng' = [EngNew(eng.store, eng.saved) EXCEPT !.restored = TRUE]
    /\ obs' = [kind |-> "restore", now |-> now', restore_ok |-> restore_ok]
    /\ UNCHANGED <<ticks, run, client, arVars>>

\* the process is killed at any point and, g seconds later, started again: a
\* new engine is constructed over the same store (__init__ with
\* _restore_states_from_db) and goes on from there; the client keeps the
\* limits it was given
CrashRestart(g) ==
    /\ ~eng.restored
    /\ eng.boots < MaxBoots
    /\ DOMAIN eng.store # {}
    /\ now' = now + g
    /\ states' = RestoreStates(eng.store, now', TRUE)
    /\ eng' = [EngNew(eng.store, eng.saved) EXCEPT !.boots = eng.boots + 1, !.op = "boot"]
    /\ obs' = [kind |-> "restore", now |-> now', restore_ok |-> TRUE]
    /\ UNCHANGED <<ticks, run, client, arVars>>

\* get_all_states, line 737: another thread starts iterating the table's keys;
\* nothing is locked
ReadBegin ==
    /\ ~eng.restored
    /\ eng.reader.pc = "idle"
    /\ DOMAIN states # {}
    /\ eng' = [eng EXCEPT !.reader = [pc |-> "iter", view |-> states,
                                       raised |-> FALSE, torn |-> FALSE]]
    /\ UNCHANGED <<now, states, ticks, obs, run, client, arVars>>

\* get_all_states, lines 737-741: the iteration goes on after get_state's
\* client calls; it raises RuntimeError when the table changed size meanwhile
ReadEnd ==
    /\ ~eng.restored
    /\ eng.reader.pc = "iter"
    /\ eng' = [eng EXCEPT !.reader = [pc |-> "done", view |-> eng.reader.view,
                                       raised |-> DOMAIN states # DOMAIN eng.reader.view,
                                       torn |-> states # eng.reader.view]]
    /\ UNCHANGED <<now, states, ticks, obs, run, client, arVars>>

(***************************************************************************)
(* AutoRemoveEngine: rules, torrent snapshots and what the collaborators   *)
(* may answer.  Sizes and free space are counted in 10^6 bytes, progress   *)
(* and ratio in hundredths.                                                *)
(***************************************************************************)
\* number of passes of the worker explored
MaxPasses == 2
\* longest torrent list an instance returns
MaxEnum == 2

\* number of successful and of failed removals explored for the record list
MaxRemovals == 502
MaxFailed == 2
\* number of manual_check calls explored
MaxManual == 2

MAX_RECORDS == 500
CHECK_INTERVAL == 60
SLEEP_BETWEEN == 5

\* rows of get_enabled_remove_rules(): json_ok says whether the row's
\* condition parses as JSON
RuleExample ==
    [name |-> "example", json_ok |-> TRUE,
     condition |-> [ratio_gt |-> 200, completed |-> TRUE, size_gt |-> 1000]]

RuleNoPeers ==
    [name |-> "no_peers", json_ok |-> TRUE, condition |-> [no_peers_time_gt |-> 300]]

RuleSpace ==
    [name |-> "space", json_ok |-> TRUE,
     condition |-> [free_space_lt |-> 1000, upload_speed_lt |-> 1024, seeding_time_gt |-> 3600]]

RuleMalformed ==
    [name |-> "malformed", json_ok |-> FALSE, condition |-> [ratio_gt |-> 0]]

RuleLists ==
    { <<>>, <<RuleExample>>, <<RuleNoPeers>>, <<RuleSpace, RuleExample>>,
      <<RuleMalformed, RuleNoPeers>> }

\* torrent snapshots of get_torrents()
TorrentDone ==
    [hash |-> "t1", upspeed |-> 0, progress |-> 100, seeding_time |-> 7200,
     ratio |-> 201, size |-> 2000, last_activity |-> 990, uploaded |-> 4020]

TorrentAlmostDone == [TorrentDone EXCEPT !.hash = "t2", !.progress = 99]

TorrentRatioAtBound == [TorrentDone EXCEPT !.hash = "t3", !.ratio = 200, !.seeding_time = 3600]

TorrentNeverActive ==
    [hash |-> "t4", upspeed |-> 2048, progress |-> 50, seeding_time |-> 0,
     ratio |-> 10, size |-> 500, last_activity |-> 0, uploaded |-> 50]

TorrentIdle == [TorrentNeverActive EXCEPT !.hash = "t5", !.last_activity = 600]

ARTorrents ==
    {TorrentDone, TorrentAlmostDone, TorrentRatioAtBound, TorrentNeverActive, TorrentIdle}

TorrentLists ==
    {<<>>} \cup UNION { [1..n -> ARTorrents] : n \in 1..MaxEnum }

FreeSpaces == {500, 1000}

\* rows of get_qb_instances()
Instances == << [id |-> 1, name |-> "qb1", enabled |-> TRUE],
                [id |-> 2, name |-> "qb2", enabled |-> FALSE] >>

\* rows of get_qb_instances() when two instances are enabled
InstancesBoth == << [id |-> 1, name |-> "qb1", enabled |-> TRUE],
                    [id |-> 3, name |-> "qb3", enabled |-> TRUE] >>

(***************************************************************************)
(* AutoRemoveEngine._check_condition and _match_rules                      *)
(***************************************************************************)
Has(condition, key) == key \in DOMAIN condition

CheckCondition(torrent, condition, free_space, t) ==
    IF Has(condition, "free_space_lt") /\ free_space >= condition.free_space_lt THEN FALSE
    ELSE IF Has(condition, "upload_speed_lt") /\ torrent.upspeed >= condition.upload_speed_lt
    THEN FALSE
    ELSE IF Has(condition, "completed") /\ condition.completed /\ torrent.progress < 100
    THEN FALSE
    ELSE IF Has(condition, "seeding_time_gt") /\ torrent.seeding_time <= condition.seeding_time_gt
    THEN FALSE
    ELSE IF Has(condition, "ratio_gt") /\ torrent.ratio <= condition.ratio_gt THEN FALSE
    ELSE IF Has(condition, "size_gt") /\ torrent.size <= condition.size_gt THEN FALSE
    ELSE IF /\ Has(condition, "no_peers_time_gt")
            /\ torrent.last_activity > 0
            /\ t - torrent.last_activity <= condition.no_peers_time_gt
    THEN FALSE
    ELSE TRUE

\* index of the first rule whose condition parses and matches, 0 if none
MatchRules(torrent, rules, free_space, t) ==
    LET hits == { i \in 1..Len(rules) :
                    /\ rules[i].json_ok
                    /\ CheckCondition(torrent, rules[i].condition, free_space, t) }
    IN  IF hits = {} THEN 0 ELSE CHOOSE i \in hits : \A j \in hits : i <= j

(***************************************************************************)
(* AutoRemoveEngine: start, stop, set_config and the worker                *)
(***************************************************************************)
\* a variant that trims the record list from the wrong end
RecordRemovalKeepOldest(e, inst, torrent, rule, t) ==
    LET rec  == [timestamp |-> t, instance_id |-> inst.id, torrent_hash |-> torrent.hash,
                 rule_name |-> rule.name, size |-> torrent.size]
        all  == Append(e.records, rec)
        kept == IF Len(all) > MAX_RECORDS THEN SubSeq(all, 1, MAX_RECORDS) ELSE all
    IN  [e EXCEPT !.records = kept,
                  !.total_removed = e.total_removed + 1,
                  !.total_freed = e.total_freed + torrent.size]

\* lines 262-285: a successful delete appends its record and adds to the totals
RecordRemoval(e, inst, torrent, rule, t) ==
    LET rec  == [timestamp |-> t, instance_id |-> inst.id, torrent_hash |-> torrent.hash,
                 rule_name |-> rule.name, size |-> torrent.size]
        all  == Append(e.records, rec)
        kept == IF Len(all) > MAX_RECORDS
                THEN SubSeq(all, Len(all) - MAX_RECORDS + 1, Len(all))
                ELSE all
    IN  [e EXCEPT !.records = kept,
                  !.total_removed = e.total_removed + 1,
                  !.total_freed = e.total_freed + torrent.size]

ARIdle == [kind |-> "none"]

\* what the store holds under a configuration key: nothing, the decimal text
\* of an integer, or some other text
StoreUnset == [kind |-> "unset", v |-> 0]

StoreInt(v) == [kind |-> "int", v |-> v]

StoreText == [kind |-> "text", v |-> 0]

\* int(get_config(key) or default) inside try/except, lines 81-88
ConfigInt(x, default) == IF x.kind = "int" THEN x.v ELSE default

\* _load_config, lines 79-91
LoadConfig(e) ==
    [e EXCEPT !.enabled = e.db_enabled,
              !.check_interval = ConfigInt(e.db_interval, CHECK_INTERVAL),
              !.sleep_between = ConfigInt(e.db_sleep, SLEEP_BETWEEN)]

\* the locals of a worker thread that does not exist
ARNoWorker ==
    [pc |-> "none", rules |-> <<>>, insts |-> <<>>, inst |-> Instances[1],
     free_space |-> 0, torrents |-> <<>>]

\* the locals of the worker thread being followed
ARWorkerOf(e) ==
    [pc |-> e.pc, rules |-> e.rules, insts |-> e.insts, inst |-> e.inst,
     free_space |-> e.free_space, torrents |-> e.torrents]

\* the engine when the thread with locals w is the one being followed
ARFollow(e, w, other) ==
    [e EXCEPT !.pc = w.pc, !.rules = w.rules, !.insts = w.insts, !.inst = w.inst,
              !.free_space = w.free_space, !.torrents = w.torrents, !.other = other]

ARInit ==
    /\ ar = [running |-> FALSE, stop_event |-> FALSE, enabled |-> FALSE,
             db_enabled |-> FALSE, records |-> <<>>, total_removed |-> 0,
             total_freed |-> 0, pc |-> "none", passes |-> 0, rules |-> <<>>,
             insts |-> <<>>, inst |-> Instances[1], free_space |-> 0,
             torrents |-> <<>>,
             check_interval |-> CHECK_INTERVAL, sleep_between |-> SLEEP_BETWEEN,
             db_interval |-> StoreUnset, db_sleep |-> StoreUnset, excs |-> 0,
             manual |-> 0, stop_deletes |-> 0, other |-> ARNoWorker]
    /\ arObs = ARIdle

\* start(), called while no earlier worker is alive
ARStart ==
    /\ ~ar.running
    /\ ar.pc \in {"none", "exit"}
    /\ ar' = IF ar.db_enabled
             THEN [LoadConfig(ar) EXCEPT !.running = TRUE, !.stop_event = FALSE,
                                         !.pc = "loop", !.stop_deletes = 0]
             ELSE LoadConfig(ar)
    /\ UNCHANGED <<now, govVars, arObs, nt>>

\* start(), lines 56-69, called after stop() (which does not join) while the
\* worker is still alive: the flag is set again, the event cleared and a
\* second thread created beside the first
ARStartBesideWorker ==
    /\ ~ar.running
    /\ ar.pc \in {"loop", "pass", "sleep", "wait"}
    /\ ar.other.pc \in {"none", "exit"}
    /\ ar' = IF ar.db_enabled
             THEN [ARFollow(LoadConfig(ar), [ARNoWorker EXCEPT !.pc = "loop"], ARWorkerOf(ar))
                      EXCEPT !.running = TRUE, !.stop_event = FALSE, !.stop_deletes = 0]
             ELSE LoadConfig(ar)
    /\ UNCHANGED <<now, govVars, arObs, nt>>

\* the scheduler turns to the other worker thread
ARSwitchWorker ==
    /\ ar.other.pc # "none"
    /\ ar' = ARFollow(ar, ar.other, ARWorkerOf(ar))
    /\ UNCHANGED <<now, govVars, arObs, nt>>

\* start() when the store raises in _load_config's first get_config: the
\* exception reaches the caller and nothing has changed
ARStartStoreFails ==
    /\ ~ar.running
    /\ ar.pc \in {"none", "exit"}
    /\ arObs' = [kind |-> "call", method |-> "start", raised |-> TRUE]
    /\ UNCHANGED <<now, govVars, ar, nt>>

\* stop()
ARStop ==
    /\ ar.running
    /\ ar' = [ar EXCEPT !.running = FALSE, !.stop_event = TRUE]
    /\ UNCHANGED <<now, govVars, arObs, nt>>

\* set_config(enabled=b)
ARSetEnabled(b) ==
    /\ ar.enabled # b
    /\ ar' = [ar EXCEPT !.enabled = b, !.db_enabled = b]
    /\ UNCHANGED <<now, govVars, arObs, nt>>

\* set_config(enabled=b) when the store's set_config raises: the field is
\* already assigned and the exception reaches the caller
ARSetEnabledStoreFails(b) ==
    /\ ar.enabled # b
    /\ ar' = [ar EXCEPT !.enabled = b]
    /\ arObs' = [kind |-> "call", method |-> "set_config", raised |-> TRUE]
    /\ UNCHANGED <<now, govVars, nt>>

\* set_config(interval=i), lines 127-129
ARSetInterval(i) ==
    LET v == Max(30, Min(3600, i)) IN
    /\ ar.db_interval # StoreInt(v)
    /\ ar' = [ar EXCEPT !.check_interval = v, !.db_interval = StoreInt(v)]
    /\ UNCHANGED <<now, govVars, arObs, nt>>

\* set_config(sleep_between=x), lines 130-132
ARSetSleep(x) ==
    LET v == Max(1, Min(60, x)) IN
    /\ ar.db_sleep # StoreInt(v)
    /\ ar' = [ar EXCEPT !.sleep_between = v, !.db_sleep = StoreInt(v)]
    /\ UNCHANGED <<now, govVars, arObs, nt>>

\* another writer of the shared store sets auto_remove_interval and
\* auto_remove_sleep
StoreEdited(interval, sleep) ==
    /\ ar.db_interval # interval \/ ar.db_sleep # sleep
    /\ ar' = [ar EXCEPT !.db_interval = interval, !.db_sleep = sleep]
    /\ UNCHANGED <<now, govVars, arObs, nt>>

\* _worker, lines 144-149 and 157-161: the loop test, _load_config and the
\* start of a pass with the rules and the instances the store returns
ARLoopTopWith(rules, insts) ==
    /\ ar.pc = "loop"
    /\ IF ar.running /\ ~ar.stop_event
       THEN /\ ar.passes < MaxPasses
            /\ ar' = IF ar.db_enabled /\ rules # <<>>
                     THEN [LoadConfig(ar) EXCEPT !.passes = ar.passes + 1,
                                                 !.pc = "pass", !.rules = rules,
                                                 !.insts = insts, !.torrents = <<>>]
                     ELSE [LoadConfig(ar) EXCEPT !.passes = ar.passes + 1,
                                                 !.pc = "wait"]
       ELSE ar' = [ar EXCEPT !.pc = "exit"]
    /\ UNCHANGED <<now, govVars, arObs, nt>>

\* the same with the store's usual two instances, one of them disabled
ARLoopTop(rules) == ARLoopTopWith(rules, Instances)

\* _worker, lines 145-152: the store raises in _load_config (before anything
\* is loaded) or in get_enabled_remove_rules (after); the exception is logged
ARLoopRaises(loaded) ==
    /\ ar.pc = "loop"
    /\ ar.running /\ ~ar.stop_event
    /\ ar.passes < MaxPasses
    /\ ar' = [(IF loaded THEN LoadConfig(ar) ELSE ar)
                 EXCEPT !.passes = ar.passes + 1, !.pc = "wait", !.excs = ar.excs + 1]
    /\ arObs' = [kind |-> "exception", at |-> "load"]
    /\ UNCHANGED <<now, govVars, nt>>

\* the enabled instances among insts
EnabledOf(insts) == SelectSeq(insts, LAMBDA i : i.enabled)

\* _worker, lines 150-152: delete_torrent raises for the torrent at hand, or
\* is_connected, get_free_space or get_torrents for the next instance, or a
\* store call; the exception leaves _check_and_remove, the pass is abandoned
\* and the exception logged.  arObs keeps the instance the call was made
\* for, the enabled instances the pass had not reached and the totals
ARPassRaises ==
    /\ ar.pc = "pass"
    /\ ar' = [ar EXCEPT !.pc = "wait", !.excs = ar.excs + 1]
    /\ arObs' = [kind |-> "exception", at |-> "pass",
                 client_call |-> \/ ar.torrents # <<>>
                                 \/ ar.insts # <<>> /\ Head(ar.insts).enabled,
                 left |-> EnabledOf(IF ar.torrents # <<>> \/ ar.insts = <<>>
                                    THEN ar.insts ELSE Tail(ar.insts)),
                 passes |-> ar.passes,
                 records |-> ar.records, total_removed |-> ar.total_removed,
                 total_freed |-> ar.total_freed]
    /\ UNCHANGED <<now, govVars, nt>>

\* _check_and_remove, lines 163-172: the next instance of the pass
ARNextInstance(connected, free_space, torrents) ==
    /\ ar.pc = "pass"
    /\ ar.torrents = <<>>
    /\ ar.insts # <<>>
    /\ LET inst == Head(ar.insts) IN
       ar' = IF inst.enabled /\ connected
             THEN [ar EXCEPT !.insts = Tail(ar.insts), !.inst = inst,
                             !.free_space = free_space, !.torrents = torrents]
             ELSE [ar EXCEPT !.insts = Tail(ar.insts)]
    /\ UNCHANGED <<now, govVars, arObs, nt>>

\* _check_and_remove, lines 174-177, with _remove_torrent: the next torrent
\* of the instance; delete_ok is what delete_torrent returns; stop_deletes
\* counts the delete_torrent calls issued since stop(); arObs keeps the
\* enabled flag at the time of the call
AREval(delete_ok) ==
    /\ ar.pc = "pass"
    /\ ar.torrents # <<>>
    /\ LET torrent == Head(ar.torrents)
           m       == MatchRules(torrent, ar.rules, ar.free_space, now)
           e1      == [ar EXCEPT !.torrents = Tail(ar.torrents),
                                 !.stop_deletes = IF m # 0 /\ ~ar.running
                                                  THEN ar.stop_deletes + 1
                                                  ELSE ar.stop_deletes]
       IN  /\ ar' = IF m = 0 THEN e1
                    ELSE IF delete_ok
                    THEN [RecordRemoval(e1, ar.inst, torrent, ar.rules[m], now)
                             EXCEPT !.pc = "sleep"]
                    ELSE [e1 EXCEPT !.pc = "sleep"]
           /\ arObs' = [kind |-> "eval", torrent |-> torrent, free_space |-> ar.free_space,
                        rules |-> ar.rules, now |-> now, matched |-> m,
                        delete_called |-> m # 0, success |-> m # 0 /\ delete_ok,
                        enabled |-> ar.enabled]
    /\ UNCHANGED <<now, govVars, nt>>

\* a variant in which the pass goes on whatever the running flag says
ARAfterSleepNoCheck ==
    /\ ar.pc = "sleep"
    /\ ar' = [ar EXCEPT !.pc = "pass"]
    /\ now' = now + (IF ar.sleep_between > 0 THEN ar.sleep_between ELSE 0)
    /\ UNCHANGED <<govVars, arObs, nt>>

\* _check_and_remove, lines 179-183: the inter-deletion sleep, then the
\* running flag decides whether the pass goes on
ARAfterSleep ==
    /\ ar.pc = "sleep"
    /\ ar' = [ar EXCEPT !.pc = IF ar.running THEN "pass" ELSE "wait"]
    /\ now' = now + (IF ar.sleep_between > 0 THEN ar.sleep_between ELSE 0)
    /\ UNCHANGED <<govVars, arObs, nt>>

\* _check_and_remove returns: no instance is left
ARPassEnd ==
    /\ ar.pc = "pass"
    /\ ar.torrents = <<>>
    /\ ar.insts = <<>>
    /\ ar' = [ar EXCEPT !.pc = "wait"]
    /\ UNCHANGED <<now, govVars, arObs, nt>>

\* _worker, line 154: _stop_event.wait returns
ARWake ==
    /\ ar.pc = "wait"
    /\ ar' = [ar EXCEPT !.pc = "loop"]
    /\ UNCHANGED <<now, govVars, arObs, nt>>

\* a torrent of the client that the governor tracks as h1
TorrentTracked == [TorrentDone EXCEPT !.hash = "h1"]

\* _check_and_remove run to its end by the caller of manual_check over the
\* torrents of the one enabled instance: each match is removed and followed
\* by the inter-deletion sleep
RECURSIVE ManualPass(_, _, _, _, _, _, _)
ManualPass(e, torrents, rules, free_space, delete_ok, t, deleted) ==
    IF torrents = <<>> THEN [e |-> e, t |-> t, deleted |-> deleted]
    ELSE LET torrent == Head(torrents)
             m       == MatchRules(torrent, rules, free_space, t)
         IN  IF m = 0
             THEN ManualPass(e, Tail(torrents), rules, free_space, delete_ok, t, deleted)
             ELSE ManualPass(IF delete_ok
                             THEN RecordRemoval(e, Instances[1], torrent, rules[m], t)
                             ELSE e,
                             Tail(torrents), rules, free_space, delete_ok,
                             t + (IF e.sleep_between > 0 THEN e.sleep_between ELSE 0),
                             IF delete_ok THEN deleted \cup {torrent.hash} ELSE deleted)

\* what manual_check does once it has decided whether to run the pass;
\* arObs keeps the enabled flag at the time of the call and whether the pass
\* called delete_torrent (it does for the first torrent that matches, and
\* time only passes after a match)
ManualOutcome(run_pass, rules, connected, free_space, torrents, delete_ok, raises) ==
    LET e0 == [ar EXCEPT !.manual = ar.manual + 1]
        r  == ManualPass(e0, IF connected /\ rules # <<>> THEN torrents ELSE <<>>,
                         rules, free_space, delete_ok, now, {})
    IN  /\ ar.manual < MaxManual
        /\ ar' = IF run_pass /\ ~raises THEN r.e ELSE e0
        /\ now' = IF run_pass /\ ~raises THEN r.t ELSE now
        /\ arObs' = [kind |-> "manual", was_running |-> ar.running, seen |-> ticks,
                     passes |-> IF run_pass THEN 1 ELSE 0,
                     raised |-> run_pass /\ raises,
                     success |-> run_pass /\ ~raises,
                     deleted |-> IF run_pass /\ ~raises THEN r.deleted ELSE {},
                     enabled |-> ar.enabled,
                     delete_called |->
                         /\ run_pass /\ ~raises /\ connected
                         /\ \E i \in DOMAIN torrents :
                               MatchRules(torrents[i], rules, free_space, now) # 0]
        /\ UNCHANGED <<govVars, nt>>

\* a variant of manual_check without the test of the running flag
ManualCheckUnguarded(rules, connected, free_space, torrents, delete_ok, raises) ==
    ManualOutcome(TRUE, rules, connected, free_space, torrents, delete_ok, raises)

\* manual_check, lines 309-317: nothing is run unless the engine is running;
\* an exception of the pass becomes a failure result
ManualCheck(rules, connected, free_space, torrents, delete_ok, raises) ==
    ManualOutcome(ar.running, rules, connected, free_space, torrents, delete_ok, raises)

\* _remove_torrent, lines 243-300, as one call made by a pass of the worker
\* or of manual_check: the reannounce (followed by a 2 s sleep unless it
\* raises), then the delete; arObs keeps every record ever appended
RemoveTorrentCall(reannounce_ok, delete_ok) ==
    LET hist  == IF arObs.kind = "remove" THEN arObs.hist ELSE <<>>
        fails == IF arObs.kind = "remove" THEN arObs.fails ELSE 0
        t     == IF reannounce_ok THEN now + 2 ELSE now
        e1    == RecordRemoval(ar, Instances[1], TorrentDone, RuleExample, t)
    IN  /\ ar.total_removed < MaxRemovals
        /\ delete_ok \/ fails < MaxFailed
        /\ ar' = IF delete_ok THEN e1 ELSE ar
        /\ arObs' = [kind  |-> "remove",
                     hist  |-> IF delete_ok
                               THEN Append(hist, e1.records[Len(e1.records)])
                               ELSE hist,
                     fails |-> IF delete_ok THEN fails ELSE fails + 1]
        /\ now' = t
        /\ UNCHANGED <<govVars, nt>>

(***************************************************************************)
(* Notifier (backend/notifier.py): start, stop, notify and the drainer     *)
(* thread _run.  The queue holds notifications (numbered from 1) and the   *)
(* None sentinel of stop().                                                *)
(***************************************************************************)
\* number of start(), of stop() and of notify() calls explored
MaxNtStarts == 2
MaxNtStops == 2
MaxNotify == 2

\* the drainer threads start() may create, in the order of their creation
Threads == 1..MaxNtStarts

\* the None that stop() puts on the queue
Sentinel == 0

\* a thread that does not exist yet
NoThread == [pc |-> "none", item |-> Sentinel, sentinel |-> FALSE]

\* __init__, lines 22-27; sent lists the notifications handed to _send
NtInit ==
    nt = [running |-> FALSE, queue |-> <<>>, thread |-> 0,
          th |-> [k \in Threads |-> NoThread],
          sent |-> <<>>, starts |-> 0, stops |-> 0, notified |-> 0]

\* start(), lines 29-35, when the notifier is not running
NtStart ==
    /\ ~nt.running
    /\ nt.starts < MaxNtStarts
    /\ nt' = [nt EXCEPT !.running = TRUE, !.starts = nt.starts + 1,
                        !.thread = nt.starts + 1,
                        !.th[nt.starts + 1] = [NoThread EXCEPT !.pc = "test"]]
    /\ UNCHANGED <<now, govVars, ar, arObs>>

\* stop(), lines 37-42: the flag is cleared and, when a thread was ever
\* started, the sentinel is enqueued; the join gives up after 5 s
NtStop ==
    /\ nt.stops < MaxNtStops
    /\ nt' = [nt EXCEPT !.running = FALSE, !.stops = nt.stops + 1,
                        !.queue = IF nt.thread # 0 THEN Append(nt.queue, Sentinel)
                                  ELSE nt.queue]
    /\ UNCHANGED <<now, govVars, ar, arObs>>

\* notify(), lines 101-107
NtNotify ==
    /\ nt.notified < MaxNotify
    /\ nt' = [nt EXCEPT !.notified = nt.notified + 1,
                        !.queue = Append(nt.queue, nt.notified + 1)]
    /\ UNCHANGED <<now, govVars, ar, arObs>>

\* _run, line 46: the loop test of drainer k
NtLoopTest(k) ==
    /\ nt.th[k].pc = "test"
    /\ nt' = [nt EXCEPT !.th[k].pc = IF nt.running THEN "get" ELSE "exit"]
    /\ UNCHANGED <<now, govVars, ar, arObs>>

\* a variant that hands the sentinel to _send like any other item
NtGetSendsSentinel(k) ==
    /\ nt.th[k].pc = "get"
    /\ nt' = IF nt.queue = <<>>
             THEN [nt EXCEPT !.th[k].pc = "test"]
             ELSE [nt EXCEPT !.queue = Tail(nt.queue),
                             !.th[k] = [pc |-> "send", item |-> Head(nt.queue),
                                        sentinel |-> nt.th[k].sentinel
                                                     \/ Head(nt.queue) = Sentinel]]
    /\ UNCHANGED <<now, govVars, ar, arObs>>

\* _run, lines 48-50 and 54-55: queue.get(timeout=1) returns the oldest
\* item, and the sentinel ends the loop, or it raises queue.Empty
NtGet(k) ==
    /\ nt.th[k].pc = "get"
    /\ nt' = IF nt.queue = <<>>
             THEN [nt EXCEPT !.th[k].pc = "test"]
             ELSE IF Head(nt.queue) = Sentinel
             THEN [nt EXCEPT !.queue = Tail(nt.queue),
                             !.th[k] = [pc |-> "exit", item |-> Sentinel, sentinel |-> TRUE]]
             ELSE [nt EXCEPT !.queue = Tail(nt.queue),
                             !.th[k] = [pc |-> "send", item |-> Head(nt.queue),
                                        sentinel |-> nt.th[k].sentinel]]
    /\ UNCHANGED <<now, govVars, ar, arObs>>

\* _run, lines 52 and 56-57: _send(item) returns, or raises and the
\* exception is logged; either way the loop goes on
NtSend(k, send_ok) ==
    /\ nt.th[k].pc = "send"
    /\ nt' = [nt EXCEPT !.th[k].pc = "test", !.sent = Append(nt.sent, nt.th[k].item)]
    /\ UNCHANGED <<now, govVars, ar, arObs>>

(***************************************************************************)
(* Specifications                                                          *)
(***************************************************************************)
GovInit ==
    /\ states = [x \in {} |-> 0]
    /\ ticks = 0
    /\ obs = [kind |-> "none"]
    /\ run = [h \in Hashes |-> NoRun]
    /\ client = [h \in Hashes |-> -1]

Init ==
    /\ now = Now0
    /\ GovInit
    /\ EngInit
    /\ ARInit
    /\ NtInit

Next ==
    \/ \E h \in Hashes, rpc_ok \in BOOLEAN :
         \E tor \in Torrents(h), o \in GovOracle(h) : ProcessTorrent(h, tor, o[1], o[2], rpc_ok)
    \/ \E g \in Gaps : Sleep(g)

Spec == Init /\ [][Next]_vars

NextOracle ==
    \/ \E h \in Hashes, o \in AllOracle :
         \E tor \in {t \in Torrents(h) : t.uploaded = 0} : ProcessTorrent(h, tor, o[1], o[2], TRUE)
    \/ \E g \in Gaps : Sleep(g)

SpecOracle == Init /\ [][NextOracle]_vars

NextAR ==
    \/ ARStart
    \/ ARStop
    \/ \E b \in BOOLEAN : ARSetEnabled(b)
    \/ \E rules \in RuleLists : ARLoopTop(rules)
    \/ \E connected \in BOOLEAN, fs \in FreeSpaces, torrents \in TorrentLists :
         ARNextInstance(connected, fs, torrents)
    \/ \E delete_ok \in BOOLEAN : AREval(delete_ok)
    \/ ARAfterSleep
    \/ ARPassEnd
    \/ ARWake

SpecAR == Init /\ [][NextAR]_vars

\* what the client and the oracle answer in the iterations of the lifecycle
LifeInputs ==
    { <<"h1", [uploaded |-> 0, upspeed |-> 0], SiteNoHelper, QbValue(100)>>,
      <<"h1", [uploaded |-> 40 * RuleTargetSpeed("h1"), upspeed |-> RuleTargetSpeed("h1")],
        SiteAnswer(TRUE, 140), QbRaises>>,
      <<"h2", [uploaded |-> 0, upspeed |-> 0], SiteNoHelper, QbValue(20)>> }

LoopGaps == {5}

RestartGaps == {60, MAX_AGE, MAX_AGE + 1}

NextLife ==
    \/ GovStart
    \/ \E save_ok \in BOOLEAN : GovStop(save_ok)
    \/ GovLoopTest
    \/ \E i \in LifeInputs, save_ok \in BOOLEAN : GovBody(i[1], i[2], i[3], i[4], TRUE, save_ok)
    \/ GovBodyRaises
    \/ \E g \in LoopGaps : GovWake(g)
    \/ \E g \in RestartGaps, restore_ok \in BOOLEAN : Restart(g, restore_ok)
    \/ ReadBegin
    \/ ReadEnd

SpecLife == Init /\ [][NextLife]_vars

\* both worker loops, each with one answer of its collaborators
NextLoops ==
    \/ GovStart
    \/ GovStop(TRUE)
    \/ GovLoopTest
    \/ GovBody("h1", [uploaded |-> 0, upspeed |-> 0], SiteNoHelper, QbValue(100), TRUE, TRUE)
    \/ GovBodyRaises
    \/ GovWake(5)
    \/ ARSetEnabled(TRUE)
    \/ ARStart
    \/ ARStop
    \/ ARLoopTop(<<RuleExample>>)
    \/ \E loaded \in BOOLEAN : ARLoopRaises(loaded)
    \/ ARNextInstance(TRUE, 500, <<TorrentDone>>)
    \/ AREval(TRUE)
    \/ ARPassRaises
    \/ ARAfterSleep
    \/ ARPassEnd
    \/ ARWake

SpecLoops == Init /\ [][NextLoops]_vars

\* what set_config is called with and what another writer leaves in the store
IntervalArgs == {10, 120, 7200}

SleepArgs == {0, 30, 100}

StoreEdits == { <<StoreInt(5), StoreInt(0)>>, <<StoreInt(7200), StoreInt(100)>>,
                <<StoreText, StoreUnset>> }

NextConfig ==
    \/ ARStart
    \/ ARStartStoreFails
    \/ ARStop
    \/ \E b \in BOOLEAN : ARSetEnabled(b)
    \/ \E b \in BOOLEAN : ARSetEnabledStoreFails(b)
    \/ \E i \in IntervalArgs : ARSetInterval(i)
    \/ \E x \in SleepArgs : ARSetSleep(x)
    \/ \E c \in StoreEdits : StoreEdited(c[1], c[2])
    \/ ARLoopTop(<<>>)
    \/ ARWake

SpecConfig == Init /\ [][NextConfig]_vars

ManualLists == { <<>>, <<TorrentDone>>, <<TorrentTracked>>, <<TorrentAlmostDone, TorrentTracked>> }

NextManual ==
    \/ \E b \in BOOLEAN : ARSetEnabled(b)
    \/ ARStart
    \/ ARStop
    \/ \E rules \in {<<>>, <<RuleExample>>}, connected \in BOOLEAN, torrents \in ManualLists,
          delete_ok \in BOOLEAN, raises \in BOOLEAN :
         ManualCheck(rules, connected, 500, torrents, delete_ok, raises)
    \/ ProcessTorrent("h1", [uploaded |-> 0, upspeed |-> 0], SiteNoHelper, QbValue(100), TRUE)
    \/ Sleep(5)

SpecManual == Init /\ [][NextManual]_vars

\* passes over two enabled instances, with client calls that raise
PassLists == { <<>>, <<TorrentDone>>, <<TorrentAlmostDone, TorrentDone>> }

NextPass ==
    \/ ARSetEnabled(TRUE)
    \/ ARStart
    \/ ARStop
    \/ ARLoopTopWith(<<RuleExample>>, InstancesBoth)
    \/ \E connected \in BOOLEAN, torrents \in PassLists :
         ARNextInstance(connected, 500, torrents)
    \/ \E delete_ok \in BOOLEAN : AREval(delete_ok)
    \/ ARPassRaises
    \/ ARAfterSleep
    \/ ARPassEnd
    \/ ARWake

SpecPass == Init /\ [][NextPass]_vars

\* start() and stop() of the governor in any order, with up to two worker
\* threads
NextGovWorkers ==
    \/ GovStart
    \/ GovStartBesideWorker
    \/ GovSwitchWorker
    \/ GovStop(TRUE)
    \/ GovLoopTest
    \/ \E i \in LifeInputs : GovBody(i[1], i[2], i[3], i[4], TRUE, TRUE)
    \/ GovBodyRaises
    \/ GovWake(5)

SpecGovWorkers == Init /\ [][NextGovWorkers]_vars

\* start() and stop() of the auto-remove engine in any order, with up to two
\* worker threads
NextARWorkers ==
    \/ ARSetEnabled(TRUE)
    \/ ARStart
    \/ ARStartBesideWorker
    \/ ARSwitchWorker
    \/ ARStop
    \/ ARLoopTop(<<RuleExample>>)
    \/ \E torrents \in PassLists : ARNextInstance(TRUE, 500, torrents)
    \/ AREval(TRUE)
    \/ ARAfterSleep
    \/ ARPassEnd
    \/ ARWake

SpecARWorkers == Init /\ [][NextARWorkers]_vars

\* passes of the worker and of manual_check while set_config switches
\* auto-removal on and off
NextDisabled ==
    \/ \E b \in BOOLEAN : ARSetEnabled(b)
    \/ ARStart
    \/ ARStop
    \/ \E rules \in {<<>>, <<RuleExample>>} : ARLoopTop(rules)
    \/ \E connected \in BOOLEAN, torrents \in PassLists :
         ARNextInstance(connected, 500, torrents)
    \/ \E delete_ok \in BOOLEAN : AREval(delete_ok)
    \/ ARAfterSleep
    \/ ARPassEnd
    \/ ARWake
    \/ \E rules \in {<<>>, <<RuleExample>>}, connected \in BOOLEAN, torrents \in PassLists,
          delete_ok \in BOOLEAN, raises \in BOOLEAN :
         ManualCheck(rules, connected, 500, torrents, delete_ok, raises)

SpecDisabled == Init /\ [][NextDisabled]_vars

\* what the client and the oracle answer when the limits at the client are
\* followed across a restart
CapInputs ==
    { <<"h2", [uploaded |-> 0, upspeed |-> 0], SiteNoHelper, QbValue(20)>>,
      <<"h2", [uploaded |-> 0, upspeed |-> 0], SiteNoHelper, QbRaises>>,
      <<"h1", [uploaded |-> 0, upspeed |-> 0], SiteNoHelper, QbValue(100)>> }

NextCaps ==
    \/ GovStart
    \/ \E save_ok \in BOOLEAN : GovStop(save_ok)
    \/ GovLoopTest
    \/ \E i \in CapInputs, rpc_ok \in BOOLEAN, save_ok \in BOOLEAN :
         GovBody(i[1], i[2], i[3], i[4], rpc_ok, save_ok)
    \/ GovWake(30)
    \/ CrashRestart(60)

SpecCaps == Init /\ [][NextCaps]_vars

\* the notifier alone
NextNotifier ==
    \/ NtStart
    \/ NtStop
    \/ NtNotify
    \/ \E k \in Threads : NtLoopTest(k)
    \/ \E k \in Threads : NtGet(k)
    \/ \E k \in Threads, send_ok \in BOOLEAN : NtSend(k, send_ok)

SpecNotifier == Init /\ [][NextNotifier]_vars

\* every drainer thread keeps being scheduled, and queue.get and _send return
SpecNotifierFair ==
    /\ SpecNotifier
    /\ \A k \in Threads :
         /\ WF_vars(NtLoopTest(k))
         /\ WF_vars(NtGet(k))
         /\ WF_vars(\E send_ok \in BOOLEAN : NtSend(k, send_ok))

\* the reannounce succeeds and so does the delete, or both fail
NextRing == \E ok \in BOOLEAN : RemoveTorrentCall(ok, ok)

SpecRing == Init /\ [][NextRing]_vars

(***************************************************************************)
(* Properties of the governor                                              *)
(***************************************************************************)
InLimitRange(l) == l >= MIN_LIMIT /\ l <= MAX_LIMIT

TickDone == obs.kind = "tick"

\* C1: every tracked torrent's last_limit is -1 or lies in
\* [MIN_LIMIT, MAX_LIMIT]; no tick records 0 or a value in 1..4095.
C1_LastLimitInRange ==
    \A h \in DOMAIN states :
        states[h].last_limit = -1 \/ InLimitRange(states[h].last_limit)

\* C2: a limit other than -1 that the rate computation yields is within
\* [MIN_LIMIT, MAX_LIMIT] and a multiple of the phase's step (1024 in
\* finish, 4096 otherwise), also when the required speed is zero.
C2_FiniteLimitClampedToStep ==
    (TickDone /\ obs.limit # -1) =>
        /\ InLimitRange(obs.limit)
        /\ obs.limit % (IF obs.phase = "finish" THEN 1024 ELSE 4096) = 0

\* C3: a tick whose chosen limit equals last_limit issues no
\* set_upload_limit call and leaves last_limit and last_limit_reason alone.
C3_EqualLimitNoRpc ==
    (TickDone /\ obs.limit = obs.pre.last_limit) =>
        /\ obs.rpc = "none"
        /\ states[obs.hash].last_limit = obs.pre.last_limit
        /\ states[obs.hash].last_limit_reason = obs.pre.last_limit_reason

\* C3 witness: a tick chose the finite limit already in force, with a reason
\* other than the recorded one.
C3_Witness ==
    /\ TickDone
    /\ obs.limit = obs.pre.last_limit
    /\ obs.limit > 0
    /\ obs.reason # obs.pre.last_limit_reason

\* C4 as stated: N >= 1 consecutive ticks that compute the same limit issue
\* exactly one set_upload_limit call, whatever the value and whether or not
\* the first attempt fails.
C4_ExactlyOneRpcPerRun ==
    \A h \in Hashes : run[h].len >= 1 => run[h].rpcs = 1

\* C4 as amended: over N >= 1 consecutive ticks that compute the same limit
\* v, no call is issued when v equals last_limit before the first of them;
\* otherwise the call is issued on every tick until it first succeeds and
\* never after, so at most one call succeeds, and exactly one call is issued
\* when the first attempt succeeds.
C4_OneSuccessfulRpcPerRun ==
    \A h \in Hashes :
        LET r == run[h] IN
        r.len >= 1 =>
            /\ r.rpcs = r.oks + r.fails
            /\ r.oks <= 1
            /\ r.start = r.val => r.rpcs = 0
            /\ (r.start # r.val /\ r.oks = 0) => r.rpcs = r.len
            /\ (r.start # r.val /\ r.fails = 0) => r.rpcs = 1

\* C4 witness: three ticks chose the same limit; the first call failed, the
\* second succeeded and the third tick issued none.
C4_Witness ==
    \E h \in Hashes :
        run[h].len = 3 /\ run[h].fails = 1 /\ run[h].oks = 1 /\ run[h].rpcs = 2

\* what the claim says the oracle returns, from what the sources answered
SiteReturned ==
    /\ obs.site.kind = "answer"
    /\ obs.pre.tid # NoTid \/ obs.site.found
    /\ obs.site.value > 0

QbReturned == obs.qb.kind = "value" /\ obs.qb.value > 0 /\ obs.qb.value < 86400

\* C5: the oracle answers from the first source that succeeds: the site if
\* it returns a value > 0, else the client if its reannounce is strictly
\* between 0 and 86400, else the estimate max(0, reannounce_time - now) if
\* reannounce_time > 0, else cached_time_left; a failing earlier source
\* never keeps the later ones from being tried.
C5_OraclePrecedence ==
    TickDone =>
        IF SiteReturned
        THEN obs.source = "site" /\ obs.time_left = obs.site.value
        ELSE IF QbReturned
        THEN obs.source = "qb_api" /\ obs.time_left = obs.qb.value
        ELSE IF obs.pre.reannounce_time > 0
        THEN /\ obs.source = "estimated"
             /\ obs.time_left = Max(0, obs.pre.reannounce_time - obs.now)
        ELSE obs.source = "cached" /\ obs.time_left = obs.pre.cached_time_left

\* C5 witness: the site raised and the client raised, and the oracle still
\* answered with the estimate.
C5_Witness ==
    /\ TickDone
    /\ obs.site.kind = "raise"
    /\ obs.qb.kind = "raise"
    /\ obs.source = "estimated"

\* C6: after every tick cycle_uploaded_start <= the uploaded count the client
\* reported, and a tick that sees the count below cycle_uploaded_start starts
\* a new cycle (cycle_index + 1, cycle_uploaded_start reset to the count).
C6_UploadedResetStartsCycle ==
    TickDone =>
        /\ states[obs.hash].cycle_uploaded_start <= obs.uploaded
        /\ obs.uploaded < obs.pre.cycle_uploaded_start =>
              /\ states[obs.hash].cycle_index = obs.pre.cycle_index + 1
              /\ states[obs.hash].cycle_uploaded_start = obs.uploaded

\* C7: every torrent state with cycle_synced has
\* reannounce_time >= cycle_start, whichever source synced it.
C7_SyncedReannounceAfterCycleStart ==
    \A h \in DOMAIN states :
        states[h].cycle_synced => states[h].reannounce_time >= states[h].cycle_start

\* what a tick of a synced state does to the cycle, given the PID integral
\* the claim expects after a jump
CycleJumpEffect(integral) ==
    (TickDone /\ obs.pre.cycle_synced) =>
        LET post == states[obs.hash] IN
        IF obs.time_left > obs.pre.cached_time_left + 30
        THEN /\ post.cycle_index = obs.pre.cycle_index + 1
             /\ post.cycle_start = obs.now
             /\ post.cycle_uploaded_start = obs.uploaded
             /\ post.reannounce_time = obs.now + obs.time_left
             /\ post.pid.integral = integral
        ELSE post.cycle_index = obs.pre.cycle_index

\* C8 as stated: on a tick of a synced state whose time_left exceeds
\* cached_time_left by more than 30, cycle_index grows by one, cycle_start
\* is now, cycle_uploaded_start is the reported count, reannounce_time is
\* now + time_left and the PID integral is zero at the end of the tick;
\* otherwise cycle_index is unchanged.
C8_JumpLeavesIntegralZero == CycleJumpEffect(0)

\* C8 as amended: the same, except that the PID, reset by the new cycle, is
\* updated once by the same tick's rate computation: at the end of the tick
\* its integral is the clamped error of a cycle with nothing uploaded yet,
\* clamp(target_total / max(target_total, 1), -0.5, 0.5) = 0.5.
C8_JumpStartsCycle == CycleJumpEffect(500)

\* C8 witness: a tick of a synced state detected a cycle jump.
C8_Witness == TickDone /\ obs.pre.cycle_synced /\ obs.jump /\ obs.source = "qb_api"

(***************************************************************************)
(* Properties of the auto-remove engine                                    *)
(***************************************************************************)
ConditionKeys ==
    {"free_space_lt", "upload_speed_lt", "completed", "seeding_time_gt",
     "ratio_gt", "size_gt", "no_peers_time_gt"}

\* the predicate the rule table gives for one key of a condition
KeyHolds(key, condition, torrent, free_space, t) ==
    CASE key = "free_space_lt"    -> free_space < condition.free_space_lt
      [] key = "upload_speed_lt"  -> torrent.upspeed < condition.upload_speed_lt
      [] key = "completed"        -> torrent.progress >= 100
      [] key = "seeding_time_gt"  -> torrent.seeding_time > condition.seeding_time_gt
      [] key = "ratio_gt"         -> torrent.ratio > condition.ratio_gt
      [] key = "size_gt"          -> torrent.size > condition.size_gt
      [] key = "no_peers_time_gt" -> /\ torrent.last_activity > 0
                                     /\ t - torrent.last_activity > condition.no_peers_time_gt

EveryPresentKeyHolds(condition, torrent, free_space, t) ==
    \A key \in ConditionKeys \cap DOMAIN condition :
        KeyHolds(key, condition, torrent, free_space, t)

Evaluated == arObs.kind = "eval"

\* C9: in a pass, delete_torrent is called for an enumerated torrent if and
\* only if some enabled rule has every present predicate holding on the
\* torrent snapshot and the free space read in that pass.
C9_DeletedIffSomeRuleHolds ==
    Evaluated =>
        (arObs.delete_called <=>
            \E i \in 1..Len(arObs.rules) :
                /\ arObs.rules[i].json_ok
                /\ EveryPresentKeyHolds(arObs.rules[i].condition, arObs.torrent,
                                        arObs.free_space, arObs.now))

\* C10: the condition evaluator returns true exactly when the predicate of
\* every present key holds: the rule it reports as matching has all its
\* present predicates holding, and every rule it passed over as not matching
\* has a present predicate that fails.
C10_EvaluatorIsConjunction ==
    Evaluated =>
        \A i \in 1..Len(arObs.rules) :
            /\ i = arObs.matched =>
                 EveryPresentKeyHolds(arObs.rules[i].condition, arObs.torrent,
                                      arObs.free_space, arObs.now)
            /\ (arObs.rules[i].json_ok /\ (arObs.matched = 0 \/ i < arObs.matched)) =>
                 ~EveryPresentKeyHolds(arObs.rules[i].condition, arObs.torrent,
                                       arObs.free_space, arObs.now)

\* the last n elements of a sequence
LastN(seq, n) ==
    IF Len(seq) > n THEN SubSeq(seq, Len(seq) - n + 1, Len(seq)) ELSE seq

\* C11: after any sequence of successful and failed removals the record list
\* holds at most 500 records, and they are the newest 500 ever appended, in
\* the order they were appended.
C11_RecordsAreNewest500 ==
    /\ Len(ar.records) <= 500
    /\ arObs.kind = "remove" => ar.records = LastN(arObs.hist, 500)

\* C11 witness: a 501st record was appended and the oldest one is gone.
C11_Witness ==
    /\ arObs.kind = "remove"
    /\ Len(arObs.hist) = 501
    /\ arObs.fails > 0
    /\ Len(ar.records) = 500
    /\ ar.records[1] = arObs.hist[2]
    /\ ar.records[500] = arObs.hist[501]

(***************************************************************************)
(* Properties of the governor's persistence and lifecycle                  *)
(***************************************************************************)
PersistedFields ==
    {"hash", "name", "tracker", "instance_id", "site_id", "tid", "cycle_index",
     "cycle_start", "cycle_uploaded_start", "cycle_synced", "target_speed",
     "last_limit", "reannounce_time", "cached_time_left"}

Restored == obs.kind = "restore"

\* C12: after persist, restart and restore, every restored state has each
\* persisted field at the value it had in memory when it was saved and its
\* PID and Kalman objects at their initial values; a saved state not older
\* than 86400 s is restored, an older one is not.
C12_RestoreRoundTrip ==
    Restored =>
        /\ \A h \in DOMAIN states :
            /\ h \in DOMAIN eng.saved
            /\ \A f \in PersistedFields : states[h][f] = eng.saved[h][f]
            /\ states[h].pid = PIDInit
            /\ states[h].kalman = KalmanInit
        /\ \A h \in DOMAIN eng.saved :
            IF obs.now - eng.store[h].updated_at > 86400
            THEN h \notin DOMAIN states
            ELSE obs.restore_ok => h \in DOMAIN states

\* C12 witness: a state saved with a tid found by the site search and a PID
\* that had run is restored exactly 86400 s after it was saved.
C12_Witness ==
    /\ Restored
    /\ \E h \in DOMAIN states :
        /\ states[h].tid # NoTid
        /\ states[h].cycle_synced
        /\ eng.saved[h].pid # PIDInit
        /\ obs.now - eng.store[h].updated_at = 86400

\* C13: right after stop() and then start(), the state table (persisted
\* fields, PID and Kalman values, last_limit_reason, source tag) is the table
\* of a fresh engine restored from the persisted snapshot.
C13_StopStartEqualsFreshRestore ==
    (eng.op = "start" /\ eng.starts >= 2) =>
        states = RestoreStates(eng.store, now, TRUE)

\* C19: a read of the inspection API never interleaves with the governor
\* thread inserting or mutating a state: while a read is in progress the
\* table is the one the read began with, and no read ends with an error or
\* a torn snapshot.
C19_ReadsNeverInterleave ==
    /\ eng.reader.pc = "iter" => states = eng.reader.view
    /\ ~eng.reader.raised
    /\ ~eng.reader.torn

\* C20: the snapshot stop() writes is the in-memory table at the moment the
\* worker has finished: once the worker has left its loop after a stop(), the
\* table still equals the table the shutdown save read.
C20_ShutdownSnapshotIsFinal ==
    (eng.snap.taken /\ ~eng.running /\ eng.pc = "exit") =>
        states = eng.snap.table

(***************************************************************************)
(* Properties of the worker loops and of the control methods               *)
(***************************************************************************)
\* C14: no exception of an iteration escapes either worker loop: neither
\* worker thread is ever ended by an exception, an exception in the governor's
\* iteration leaves its worker at the sleep before the next iteration, and a
\* worker that has left its loop found its engine stopped.
C14_LoopsSurviveExceptions ==
    /\ eng.pc \in {"none", "test", "body", "sleep", "exit"}
    /\ ar.pc \in {"none", "loop", "pass", "sleep", "wait", "exit"}
    /\ eng.op = "raise" => eng.pc = "sleep"
    /\ eng.pc = "exit" => ~eng.running
    /\ ar.pc = "exit" => (~ar.running \/ ar.stop_event)

\* C14 witness: both workers are inside a later iteration after an exception
\* in an earlier one.
C14_Witness ==
    /\ eng.excs >= 1 /\ eng.pc = "body" /\ eng.running
    /\ ar.excs >= 1 /\ ar.pc = "pass" /\ ar.running

\* C15: start, stop, manual_check and set_config never raise to their caller,
\* even when a store call fails.
C15_ControlNeverRaises ==
    arObs.kind = "call" => ~arObs.raised

\* C16: the check interval in effect is within [30, 3600] and the
\* inter-deletion sleep in effect within [1, 60], whatever set_config is
\* called with and whatever the store holds when the configuration is
\* reloaded.
C16_IntervalsInRange ==
    /\ 30 <= ar.check_interval /\ ar.check_interval <= 3600
    /\ 1 <= ar.sleep_between /\ ar.sleep_between <= 60

ManualDone == arObs.kind = "manual"

\* C17 as stated: every call of manual_check runs exactly one pass and its
\* result has success = false only when that pass failed.
C17_EveryCallRunsOnePass ==
    ManualDone =>
        /\ arObs.passes = 1
        /\ ~arObs.success => arObs.raised

\* C17 as amended: a call of manual_check made while the engine is running
\* runs exactly one pass and returns success = true unless the pass raised;
\* a call made while the engine is not running runs no pass and returns
\* success = false.
C17_RunningCallRunsOnePass ==
    ManualDone =>
        IF arObs.was_running
        THEN arObs.passes = 1 /\ (arObs.success <=> ~arObs.raised)
        ELSE arObs.passes = 0 /\ ~arObs.success /\ arObs.deleted = {}

\* C17 witness: manual_check, called on a running engine, ran a pass that
\* removed a torrent, after an earlier call on the stopped engine ran none.
C17_Witness ==
    /\ ManualDone
    /\ arObs.was_running
    /\ arObs.success
    /\ arObs.deleted # {}
    /\ ar.manual = 2
    /\ ar.total_removed = 1

\* C18: the state table keeps no entry for a torrent that is gone: when the
\* auto-remove engine has deleted a torrent, and the governor has not been
\* handed that torrent since, the governor holds no state for its hash.
C18_DeletedTorrentHasNoState ==
    (ManualDone /\ ticks = arObs.seen) =>
        \A h \in arObs.deleted : h \notin DOMAIN states

(***************************************************************************)
(* Properties of the rate computation and of the reannounce oracle         *)
(***************************************************************************)
\* C21: the phase the rate computation uses on a tick is the phase of the
\* time_left the oracle returned on that tick (warmup if the state is not
\* synced, finish up to 30 s, steady up to 120 s, catch beyond), whichever
\* source answered.
C21_PhaseFromOracleTimeLeft ==
    TickDone => obs.phase = get_phase(obs.time_left, obs.post.cycle_synced)

\* C22: a torrent first seen by the governor, not yet synced, for which the
\* oracle returns 1800 s is handled by the warmup bands: with nothing
\* uploaded in the cycle its limit is -1 and its reason the warmup-idle tag.
C22_FreshStateWarmupUncapped ==
    (TickDone /\ ~obs.pre.cycle_synced /\ obs.time_left = 1800) =>
        /\ obs.phase = "warmup"
        /\ obs.limit = -1
        /\ obs.reason[1] = "W:preheat"

\* C23: an oracle query answered by the site leaves every field of the state
\* but the tid/site_id cache as it was, reannounce_time, cached_time_left and
\* the cycle fields included; a query moves reannounce_time only on the
\* qb_api path, to now + value.
C23_SiteLeavesTimingAlone ==
    TickDone =>
        /\ obs.source = "site" =>
              \A f \in DOMAIN obs.oracle.pre \ {"tid", "site_id"} :
                  obs.oracle.post[f] = obs.oracle.pre[f]
        /\ obs.oracle.post.reannounce_time # obs.oracle.pre.reannounce_time =>
              /\ obs.source = "qb_api"
              /\ obs.oracle.post.reannounce_time = obs.now + obs.qb.value

\* C23 witness: the site answered for a state whose reannounce_time an
\* earlier qb_api answer had written, and the query filled the tid cache.
C23_Witness ==
    /\ TickDone
    /\ obs.source = "site"
    /\ obs.oracle.pre.reannounce_time > 0
    /\ obs.oracle.pre.tid = NoTid
    /\ obs.oracle.post.tid # NoTid
    /\ obs.oracle.post.reannounce_time = obs.oracle.pre.reannounce_time

(***************************************************************************)
(* Further properties of the auto-remove engine                            *)
(***************************************************************************)
\* C24: a condition with no_peers_time_gt matches a torrent only when its
\* last_activity is > 0 and now - last_activity > value; a torrent whose
\* last_activity is <= 0 does not satisfy the predicate.
C24_NoPeersNeedsKnownActivity ==
    (Evaluated /\ arObs.matched # 0) =>
        LET condition == arObs.rules[arObs.matched].condition IN
        Has(condition, "no_peers_time_gt") =>
            /\ arObs.torrent.last_activity > 0
            /\ arObs.now - arObs.torrent.last_activity > condition.no_peers_time_gt

\* C25: once stop() has been called (and start() not called again) the
\* worker's current pass issues at most one more delete_torrent call: after
\* that delete and the inter-deletion sleep the pass ends, whatever torrents
\* and instances are left.
C25_AtMostOneDeleteAfterStop ==
    /\ ar.stop_deletes <= 1
    /\ ar.stop_deletes = 1 => ar.pc # "pass"

\* C25 witness: the worker deleted one torrent after stop() and ended its
\* pass although the next torrent of the list matched a rule too.
C25_Witness ==
    /\ ~ar.running
    /\ ar.stop_deletes = 1
    /\ ar.pc = "wait"
    /\ ar.torrents # <<>>
    /\ MatchRules(Head(ar.torrents), ar.rules, ar.free_space, now) # 0

\* C26: when a client-driver call raises for one instance during a pass, only
\* that instance is skipped: the pass goes on while an enabled instance is
\* left to process, and the records and the running totals are what they
\* were before the call.
C26_FailedInstanceOnlySkipped ==
    (/\ arObs.kind = "exception"
     /\ arObs.at = "pass"
     /\ arObs.client_call
     /\ arObs.passes = ar.passes
     /\ ar.pc # "loop") =>
        /\ arObs.left # <<>> => ar.pc \in {"pass", "sleep"}
        /\ ar.records = arObs.records
        /\ ar.total_removed = arObs.total_removed
        /\ ar.total_freed = arObs.total_freed

(***************************************************************************)
(* Properties of the notifier                                              *)
(***************************************************************************)
DrainerAlive(k) == nt.th[k].pc \in {"test", "get", "send"}

\* C27: after stop() on a started notifier the drainer thread eventually
\* terminates (as long as start() is not called again): a drainer that
\* dequeues the sentinel of stop() leaves its loop at once, sending nothing
\* dequeued after it, and every drainer alive while the notifier is stopped
\* eventually exits.
C27_DrainerTerminates ==
    /\ [](\A k \in Threads : nt.th[k].sentinel => nt.th[k].pc = "exit")
    /\ \A k \in Threads :
         (~nt.running /\ DrainerAlive(k)) ~> (nt.th[k].pc = "exit" \/ nt.running)

\* C27 witness: the drainer, started once, dequeued the sentinel and exited
\* after sending one notification, and a notification enqueued after the
\* sentinel is still in the queue, unsent.
C27_Witness ==
    /\ ~nt.running
    /\ nt.starts = 1
    /\ nt.th[1].pc = "exit"
    /\ nt.th[1].sentinel
    /\ nt.sent = <<1>>
    /\ nt.queue = <<2>>

(***************************************************************************)
(* Properties of the worker threads                                        *)
(***************************************************************************)
GovWorkerAlive(pc) == pc \in {"test", "body", "sleep"}

ARWorkerAlive(pc) == pc \in {"loop", "pass", "sleep", "wait"}

\* C28: after any interleaving of start() and stop() on the governor at most
\* one worker thread is in the tick loop, also when a stop() whose join timed
\* out is followed by start().
C28_AtMostOneGovWorker ==
    ~(GovWorkerAlive(eng.pc) /\ GovWorkerAlive(eng.other))

\* C29: after any interleaving of start() and stop() on the auto-remove
\* engine at most one worker thread is executing passes, also when stop() is
\* at once followed by start() while the old worker is in a pass or in its
\* inter-deletion sleep.
C29_AtMostOneARWorker ==
    ~(ARWorkerAlive(ar.pc) /\ ARWorkerAlive(ar.other.pc))

(***************************************************************************)
(* Properties of the limits at the client                                  *)
(***************************************************************************)
\* C30: after every tick that processes a torrent without an RPC failure the
\* upload limit in force at the client for the torrent equals the state's
\* last_limit, also on the first tick of a new state and of a state restored
\* from the store.
C30_ClientCapIsLastLimit ==
    (TickDone /\ obs.rpc # "failed") =>
        client[obs.hash] = states[obs.hash].last_limit

(***************************************************************************)
(* Properties of the enabled flag                                          *)
(***************************************************************************)
\* C31: the auto-remove engine issues no delete_torrent call while
\* auto-removal is disabled, whether the pass is run by the worker or by
\* manual_check, and also in a pass that was in progress when
\* set_config(enabled=False) was called.
C31_NoDeleteWhileDisabled ==
    /\ (arObs.kind = "eval" /\ arObs.delete_called) => arObs.enabled
    /\ (arObs.kind = "manual" /\ arObs.delete_called) => arObs.enabled

\* C32: after any sequence of start() and stop() calls that ends with
\* start(), the notifier has a live drainer thread whenever its running flag
\* is true (a sentinel left in the queue by an earlier stop() never ends the
\* new drainer), so every notification in the queue of a running notifier is
\* eventually handed to _send unless stop() is called first.
C32_RunningNotifierDelivers ==
    /\ [](nt.running => \E k \in Threads : DrainerAlive(k))
    /\ \A n \in 1..MaxNotify :
         (nt.running /\ \E i \in DOMAIN nt.queue : nt.queue[i] = n)
             ~> (~nt.running \/ \E j \in DOMAIN nt.sent : nt.sent[j] = n)

====
